---- MODULE Spec2Model ----
(***************************************************************************)
(* Model of the Mule-Analyzer command line tool: mule_analyzer/cli.py      *)
(* (main) driving mule_analyzer/parser.py (parse_mule_file, parse_mule_xml *)
(* and the extractors it calls).                                           *)
(*                                                                         *)
(* Python values are modelled as follows.                                  *)
(*   str        a TLA+ string; characters are read with Head/Tail/SubSeq   *)
(*   None       the value None below (no modelled input string equals it)  *)
(*   dict       a function whose domain is the set of keys present; an     *)
(*              Optional[dict] that is None is the empty dict, because the *)
(*              code only ever tests such a value for truth                *)
(*   list       a sequence                                                 *)
(*   Element    [tag, attrib, kids, text]; tag is the ElementTree tag,     *)
(*              "{uri}local" for a namespaced element                      *)
(***************************************************************************)
EXTENDS Integers, Sequences, FiniteSets, TLC

(***************************************************************************)
(* Python built-ins used by the parser                                     *)
(***************************************************************************)
None == "<None>"

EmptyDict == [k \in {} |-> None]

\* v bound to the parameter of In: a local variable assigned once
Let1(v, In(_)) == In(v)

Let2(v, w, In(_, _)) == In(v, w)

\* d[k] = v
Put(d, k, v) == (k :> v) @@ d

\* d.get(k)
Get(d, k) == IF k \in DOMAIN d THEN d[k] ELSE None

\* bool(v) for v a str or None
Truthy(v) == v # None /\ v # ""

\* a or b
Or(a, b) == IF Truthy(a) THEN a ELSE b

IsSpace(c) == c \in {" ", "\n", "\t"}

IsDigit(c) == c \in {"0", "1", "2", "3", "4", "5", "6", "7", "8", "9"}

DigitVal(c) ==
  CASE c = "0" -> 0 [] c = "1" -> 1 [] c = "2" -> 2 [] c = "3" -> 3
    [] c = "4" -> 4 [] c = "5" -> 5 [] c = "6" -> 6 [] c = "7" -> 7
    [] c = "8" -> 8 [] c = "9" -> 9

RECURSIVE LStrip(_)
LStrip(s) == IF s # "" /\ IsSpace(Head(s)) THEN LStrip(Tail(s)) ELSE s

RECURSIVE RStrip(_)
RStrip(s) ==
  IF s # "" /\ IsSpace(SubSeq(s, Len(s), Len(s)))
  THEN RStrip(SubSeq(s, 1, Len(s) - 1))
  ELSE s

\* str.strip()
Strip(s) == RStrip(LStrip(s))

\* str.startswith(p)
StartsWith(s, p) == Len(s) >= Len(p) /\ SubSeq(s, 1, Len(p)) = p

\* s.endswith("Ms")
EndsWithMs(s) == Len(s) >= 2 /\ SubSeq(s, Len(s) - 1, Len(s)) = "Ms"

\* index of the first occurrence of character c in s, 0 when there is none
RECURSIVE IndexOf(_, _, _)
IndexOf(s, c, i) ==
  IF i > Len(s) THEN 0
  ELSE IF SubSeq(s, i, i) = c THEN i
  ELSE IndexOf(s, c, i + 1)

\* the digits of an int literal: digits, single underscores between digits
RECURSIVE IntDigits(_, _, _)
IntDigits(s, acc, afterDigit) ==
  IF s = "" THEN [ok |-> afterDigit, val |-> acc]
  ELSE IF IsDigit(Head(s))
       THEN IntDigits(Tail(s), acc * 10 + DigitVal(Head(s)), TRUE)
  ELSE IF Head(s) = "_" /\ afterDigit
       THEN IntDigits(Tail(s), acc, FALSE)
  ELSE [ok |-> FALSE, val |-> 0]

\* int(s): ok is FALSE where Python raises ValueError
SignedInt(t) ==
  IF t # "" /\ Head(t) = "-"
  THEN Let1(IntDigits(Tail(t), 0, FALSE),
            LAMBDA r : [ok |-> r.ok, val |-> 0 - r.val])
  ELSE IF t # "" /\ Head(t) = "+" THEN IntDigits(Tail(t), 0, FALSE)
  ELSE IntDigits(t, 0, FALSE)

PyInt(s) == SignedInt(Strip(s))

\* str.upper() on the ASCII letters the transaction attributes use
UpperChar(c) ==
  CASE c = "a" -> "A" [] c = "b" -> "B" [] c = "c" -> "C"
    [] c = "e" -> "E" [] c = "g" -> "G" [] c = "i" -> "I"
    [] c = "j" -> "J" [] c = "l" -> "L" [] c = "n" -> "N"
    [] c = "o" -> "O" [] c = "r" -> "R" [] c = "s" -> "S"
    [] c = "w" -> "W" [] c = "x" -> "X" [] c = "y" -> "Y"
    [] OTHER -> c

RECURSIVE Upper(_)
Upper(s) == IF s = "" THEN "" ELSE UpperChar(Head(s)) \o Upper(Tail(s))

\* hashlib.sha1(body).hexdigest(): a digest is determined by, and here
\* stands for, the bytes hashed
Sha1Hex(body) == "sha1(" \o body \o ")"

(***************************************************************************)
(* xml.etree.ElementTree elements                                          *)
(***************************************************************************)
El(tag, attrib, kids, text) ==
  [tag |-> tag, attrib |-> attrib, kids |-> kids, text |-> text]

\* Element.iter(): the element and its descendants in document order
RECURSIVE Iter(_)
RECURSIVE IterAll(_)
Iter(e) == <<e>> \o IterAll(e.kids)
IterAll(es) == IF es = <<>> THEN <<>> ELSE Iter(Head(es)) \o IterAll(Tail(es))

(***************************************************************************)
(* parser.py: names                                                        *)
(***************************************************************************)
local_name(tag) ==
  IF StartsWith(tag, "{")
  THEN SubSeq(tag, IndexOf(tag, "}", 1) + 1, Len(tag))
  ELSE tag

\* the rendering of qualified_name for a tag split into uri and local
Qualified(prefix, local) ==
  IF Truthy(prefix) THEN prefix \o ":" \o local ELSE local

qualified_name(tag, namespace_map) ==
  IF StartsWith(tag, "{")
  THEN Let1(IndexOf(tag, "}", 1),
            LAMBDA close :
              Qualified(Get(namespace_map, SubSeq(tag, 2, close - 1)),
                        SubSeq(tag, close + 1, Len(tag))))
  ELSE tag

\* namespace_map.setdefault(uri, prefix) over the start-ns events, in order
RECURSIVE collect_namespaces(_, _)
collect_namespaces(decls, namespace_map) ==
  IF decls = <<>> THEN namespace_map
  ELSE collect_namespaces(Tail(decls),
         IF Head(decls)[2] \in DOMAIN namespace_map THEN namespace_map
         ELSE Put(namespace_map, Head(decls)[2], Head(decls)[1]))

(***************************************************************************)
(* parser.py: NodeLookup                                                   *)
(***************************************************************************)
UnknownReference(name) ==
  "Reference to unknown flow or subflow '" \o name \o "'"

\* resolve, were it to record no assumption for an unknown name
resolve_silent(lookup, assumptions, name) ==
  IF name \in DOMAIN lookup.flows
  THEN [val |-> lookup.flows[name], asm |-> assumptions]
  ELSE IF name \in DOMAIN lookup.subflows
  THEN [val |-> lookup.subflows[name], asm |-> assumptions]
  ELSE [val |-> "flow://" \o name, asm |-> assumptions]

\* resolve, were it to look a name up among the subflows first
resolve_subflows_first(lookup, assumptions, name) ==
  IF name \in DOMAIN lookup.subflows
  THEN [val |-> lookup.subflows[name], asm |-> assumptions]
  ELSE IF name \in DOMAIN lookup.flows
  THEN [val |-> lookup.flows[name], asm |-> assumptions]
  ELSE [val |-> "flow://" \o name,
        asm |-> Append(assumptions, UnknownReference(name))]

\* NodeLookup.resolve: the identifier and the assumptions list afterwards
resolve(lookup, assumptions, name) ==
  IF name \in DOMAIN lookup.flows
  THEN [val |-> lookup.flows[name], asm |-> assumptions]
  ELSE IF name \in DOMAIN lookup.subflows
  THEN [val |-> lookup.subflows[name], asm |-> assumptions]
  ELSE [val |-> "flow://" \o name,
        asm |-> Append(assumptions, UnknownReference(name))]

(***************************************************************************)
(* parser.py: processors                                                   *)
(***************************************************************************)
\* build_attributes: the attributes not excluded, keyed by qualified name
\* (distinct ElementTree keys of one element have distinct qualified names
\* in every document modelled here)
build_attributes(attributes, namespace_map, exclude_keys) ==
  Let2(DOMAIN attributes \ exclude_keys,
       {qualified_name(k, namespace_map) : k \in DOMAIN attributes \ exclude_keys},
       LAMBDA kept, qnames :
         [q \in qnames |->
            attributes[CHOOSE k \in kept :
                         qualified_name(k, namespace_map) = q]])

\* a candidate of elem.iter() that is a flow-ref with a non-empty name
IsNamedFlowRef(candidate) ==
  /\ local_name(candidate.tag) = "flow-ref"
  /\ Truthy(Get(candidate.attrib, "name"))

\* collect_branch_targets: resolve every named flow-ref of elem.iter()
RECURSIVE ResolveAll(_, _, _, _)
ResolveAll(candidates, lookup, assumptions, targets) ==
  IF candidates = <<>> THEN [val |-> targets, asm |-> assumptions]
  ELSE IF IsNamedFlowRef(Head(candidates))
       THEN Let1(resolve(lookup, assumptions, Head(candidates).attrib["name"]),
                 LAMBDA r : ResolveAll(Tail(candidates), lookup, r.asm,
                                       Append(targets, r.val)))
  ELSE ResolveAll(Tail(candidates), lookup, assumptions, targets)

\* collect_branch_targets, were only the direct children of elem searched
direct_branch_targets(elem, lookup, assumptions) ==
  ResolveAll(elem.kids, lookup, assumptions, <<>>)

collect_branch_targets(elem, lookup, assumptions) ==
  ResolveAll(Iter(elem), lookup, assumptions, <<>>)

\* one edge per target, tagged via
EdgesTo(targets, via) ==
  [i \in 1..Len(targets) |-> [to |-> targets[i], via |-> via]]

\* a branch of extract_branches for a when child
WhenBranch(child, targets) ==
  [when |-> Or(Get(child.attrib, "expression"), Get(child.attrib, "condition")),
   targets |-> targets]

\* the loop of extract_branches over the children of a choice
RECURSIVE BranchLoop(_, _, _, _, _)
BranchLoop(children, lookup, assumptions, branches, edges) ==
  IF children = <<>>
  THEN [branches |-> branches, edges |-> edges, asm |-> assumptions]
  ELSE IF local_name(Head(children).tag) = "when"
  THEN Let1(collect_branch_targets(Head(children), lookup, assumptions),
            LAMBDA t :
              BranchLoop(Tail(children), lookup, t.asm,
                         Append(branches, WhenBranch(Head(children), t.val)),
                         edges \o EdgesTo(t.val, "choice.when")))
  ELSE IF local_name(Head(children).tag) = "otherwise"
  THEN Let1(collect_branch_targets(Head(children), lookup, assumptions),
            LAMBDA t :
              BranchLoop(Tail(children), lookup, t.asm,
                         Append(branches, [otherwise |-> TRUE, targets |-> t.val]),
                         edges \o EdgesTo(t.val, "choice.otherwise")))
  ELSE BranchLoop(Tail(children), lookup, assumptions, branches, edges)

extract_branches(elem, lookup, assumptions) ==
  IF local_name(elem.tag) # "choice"
  THEN [branches |-> <<>>, edges |-> <<>>, asm |-> assumptions]
  ELSE BranchLoop(elem.kids, lookup, assumptions, <<>>, <<>>)

\* the scan of extract_dataweave over elem.iter(): script bodies and mimeType
RECURSIVE ScriptScan(_, _, _)
ScriptScan(nodes, scripts, mime_type) ==
  IF nodes = <<>> THEN [scripts |-> scripts, mime_type |-> mime_type]
  ELSE IF local_name(Head(nodes).tag) \in
            {"set-payload", "set-variable", "set-property", "script"}
  THEN Let1(Strip(Or(Head(nodes).text, "")),
            LAMBDA payload_text :
              ScriptScan(Tail(nodes),
                IF payload_text # "" THEN Append(scripts, payload_text)
                ELSE scripts,
                IF "mimeType" \in DOMAIN Head(nodes).attrib
                THEN Head(nodes).attrib["mimeType"] ELSE mime_type))
  ELSE ScriptScan(Tail(nodes), scripts, mime_type)

\* "\n\n".join(scripts)
RECURSIVE JoinScripts(_)
JoinScripts(scripts) ==
  IF scripts = <<>> THEN ""
  ELSE IF Len(scripts) = 1 THEN Head(scripts)
  ELSE Head(scripts) \o "\n\n" \o JoinScripts(Tail(scripts))

\* body.splitlines()[0]
FirstLine(body) ==
  Let1(IndexOf(body, "\n", 1),
       LAMBDA nl : IF nl = 0 THEN body ELSE SubSeq(body, 1, nl - 1))

\* header.split(): the whitespace-separated parts
RECURSIVE SplitWords(_, _, _)
SplitWords(s, word, parts) ==
  IF s = "" THEN (IF word = "" THEN parts ELSE Append(parts, word))
  ELSE IF IsSpace(Head(s))
       THEN SplitWords(Tail(s), "",
                       IF word = "" THEN parts ELSE Append(parts, word))
  ELSE SplitWords(Tail(s), word \o Head(s), parts)

\* the version of extract_dataweave: the part after a leading %dw
DwVersion(header, parts) ==
  IF Truthy(header) /\ StartsWith(header, "%dw") /\ Len(parts) >= 2
  THEN parts[2] ELSE None

\* the dataweave dict of extract_dataweave
DataWeave(body, header, version, mime_type) ==
  [bodyHash |-> Sha1Hex(body)]
  @@ (IF Truthy(version) THEN [version |-> version] ELSE EmptyDict)
  @@ (IF Truthy(mime_type) THEN [outputMime |-> mime_type] ELSE EmptyDict)
  @@ (IF Truthy(header) THEN [header |-> header] ELSE EmptyDict)

\* extract_dataweave after the scan, for a non-empty scripts list
DataWeaveOf(body, mime_type) ==
  Let1(IF body # "" THEN Strip(FirstLine(body)) ELSE None,
       LAMBDA header :
         DataWeave(body, header,
                   DwVersion(header, IF Truthy(header)
                                     THEN SplitWords(header, "", <<>>)
                                     ELSE <<>>),
                   mime_type))

\* extract_dataweave: the DataWeave info of a transform element, if any
extract_dataweave(elem, namespace_map) ==
  IF ~StartsWith(qualified_name(elem.tag, namespace_map), "ee:")
     /\ local_name(elem.tag) \notin {"transform", "transform-message"}
  THEN EmptyDict
  ELSE Let1(ScriptScan(Iter(elem), <<>>, None),
            LAMBDA scan :
              IF scan.scripts = <<>> THEN EmptyDict
              ELSE DataWeaveOf(Strip(JoinScripts(scan.scripts)),
                               scan.mime_type))

\* the processor dict of parse_processor
Processor(idx, type, config_ref, attributes, dw_info, branches) ==
  [idx |-> idx, type |-> type]
  @@ (IF Truthy(config_ref) THEN [configRef |-> config_ref] ELSE EmptyDict)
  @@ (IF DOMAIN attributes # {} THEN [attributes |-> attributes]
      ELSE EmptyDict)
  @@ (IF DOMAIN dw_info # {} THEN [dw |-> dw_info] ELSE EmptyDict)
  @@ (IF branches # <<>> THEN [branches |-> branches] ELSE EmptyDict)

\* the end of parse_processor: a flow-ref with a name adds a flow-ref edge
FlowRefEdge(elem, lookup, processor, b) ==
  IF IsNamedFlowRef(elem)
  THEN Let1(resolve(lookup, b.asm, elem.attrib["name"]),
            LAMBDA r :
              [processor |-> processor,
               edges |-> Append(b.edges, [to |-> r.val, via |-> "flow-ref"]),
               asm |-> r.asm])
  ELSE [processor |-> processor, edges |-> b.edges, asm |-> b.asm]

\* parse_processor: the processor, its edges, the assumptions afterwards
parse_processor(idx, elem, lookup, assumptions, namespace_map) ==
  Let1(extract_branches(elem, lookup, assumptions),
       LAMBDA b :
         FlowRefEdge(elem, lookup,
           Processor(idx, qualified_name(elem.tag, namespace_map),
                     Get(elem.attrib, "config-ref"),
                     build_attributes(elem.attrib, namespace_map,
                                      {"config-ref"}),
                     extract_dataweave(elem, namespace_map),
                     b.branches),
           b))

(***************************************************************************)
(* parser.py: error handlers, sources, flags                               *)
(***************************************************************************)
\* FirstTarget, were the loop not to break: every named flow-ref of the
\* entry is resolved and the last one is the target
RECURSIVE FirstTarget_no_break(_, _, _)
FirstTarget_no_break(candidates, lookup, assumptions) ==
  IF candidates = <<>> THEN [found |-> FALSE, val |-> None, asm |-> assumptions]
  ELSE IF IsNamedFlowRef(Head(candidates))
       THEN Let2(resolve(lookup, assumptions, Head(candidates).attrib["name"]),
                 FirstTarget_no_break(Tail(candidates), lookup,
                   resolve(lookup, assumptions,
                           Head(candidates).attrib["name"]).asm),
                 LAMBDA r, rest :
                   IF rest.found THEN rest
                   ELSE [found |-> TRUE, val |-> r.val, asm |-> r.asm])
  ELSE FirstTarget_no_break(Tail(candidates), lookup, assumptions)

\* the search of parse_error_handler for the entry's target: the first
\* candidate that is a flow-ref with a name is resolved, and the loop breaks
RECURSIVE FirstTarget(_, _, _)
FirstTarget(candidates, lookup, assumptions) ==
  IF candidates = <<>> THEN [found |-> FALSE, val |-> None, asm |-> assumptions]
  ELSE IF IsNamedFlowRef(Head(candidates))
       THEN Let1(resolve(lookup, assumptions, Head(candidates).attrib["name"]),
                 LAMBDA r : [found |-> TRUE, val |-> r.val, asm |-> r.asm])
  ELSE FirstTarget(Tail(candidates), lookup, assumptions)

\* the entry dict of parse_error_handler; int(status) raising ValueError
\* leaves setsStatus out
ErrorEntry(type, when_attr, status, t) ==
  [type |-> type]
  @@ (IF Truthy(when_attr) THEN [when |-> when_attr] ELSE EmptyDict)
  @@ (IF Truthy(status)
      THEN Let1(PyInt(status),
                LAMBDA i : IF i.ok THEN [setsStatus |-> i.val] ELSE EmptyDict)
      ELSE EmptyDict)
  @@ (IF t.found THEN [target |-> t.val] ELSE EmptyDict)

\* one on-error entry of parse_error_handler
OnErrorEntry(child, lookup, assumptions) ==
  Let1(FirstTarget(Iter(child), lookup, assumptions),
       LAMBDA t :
         [entry |-> ErrorEntry(local_name(child.tag),
                               Or(Get(child.attrib, "when"),
                                  Get(child.attrib, "type")),
                               Get(child.attrib, "statusCode"), t),
          asm |-> t.asm])

RECURSIVE OnErrorLoop(_, _, _, _)
OnErrorLoop(children, lookup, assumptions, on_error_entries) ==
  IF children = <<>> THEN [val |-> on_error_entries, asm |-> assumptions]
  ELSE IF local_name(Head(children).tag) \notin
            {"on-error-continue", "on-error-propagate"}
  THEN OnErrorLoop(Tail(children), lookup, assumptions, on_error_entries)
  ELSE Let1(OnErrorEntry(Head(children), lookup, assumptions),
            LAMBDA e : OnErrorLoop(Tail(children), lookup, e.asm,
                                   Append(on_error_entries, e.entry)))

parse_error_handler(elem, lookup, assumptions) ==
  Let1(OnErrorLoop(elem.kids, lookup, assumptions, <<>>),
       LAMBDA r :
         [val |-> IF r.val = <<>> THEN EmptyDict
                  ELSE [onError |-> r.val, default |-> "none"],
          asm |-> r.asm])

\* the transaction dict of extract_transaction
Transaction(trans_type, action) ==
  (IF Truthy(trans_type) /\ Upper(trans_type) \in {"NONE", "LOCAL", "XA"}
   THEN [type |-> Upper(trans_type)] ELSE EmptyDict)
  @@ (IF Truthy(action)
         /\ Upper(action) \in {"ALWAYS_BEGIN", "BEGIN_OR_JOIN", "NONE"}
      THEN [action |-> Upper(action)] ELSE EmptyDict)

extract_transaction(attributes) ==
  Let2(Or(Get(attributes, "transactionType"), Get(attributes, "transaction")),
       Get(attributes, "transactionAction"),
       LAMBDA trans_type, action :
         IF ~Truthy(trans_type) /\ ~Truthy(action) THEN EmptyDict
         ELSE Transaction(trans_type, action))

\* methods.split(","), each part stripped, the empty parts dropped
RECURSIVE SplitMethods(_, _, _)
SplitMethods(s, part, parts) ==
  IF s = ""
  THEN (IF Strip(part) = "" THEN parts ELSE Append(parts, Strip(part)))
  ELSE IF Head(s) = ","
  THEN SplitMethods(Tail(s), "",
         IF Strip(part) = "" THEN parts ELSE Append(parts, Strip(part)))
  ELSE SplitMethods(Tail(s), part \o Head(s), parts)

\* one key of the loop of parse_source over optional_keys; int() of a
\* responseTimeout that is no int literal raises ValueError
OptionalKey(key, normalized, value, r) ==
  IF r.raised \/ ~Truthy(value) THEN r
  ELSE IF EndsWithMs(normalized)
  THEN Let1(PyInt(value),
            LAMBDA i : IF i.ok
                       THEN [raised |-> FALSE,
                             val |-> Put(r.val, normalized, i.val)]
                       ELSE [raised |-> TRUE, val |-> r.val])
  ELSE [raised |-> FALSE, val |-> Put(r.val, normalized, value)]

RECURSIVE OptionalKeys(_, _, _)
OptionalKeys(keys, first, r) ==
  IF keys = <<>> THEN r
  ELSE OptionalKeys(Tail(keys), first,
         OptionalKey(Head(keys),
                     IF Head(keys) = "responseTimeout"
                     THEN "responseTimeoutMs" ELSE Head(keys),
                     Get(first.attrib, Head(keys)), r))

\* parse_source after the optional keys: transaction, methods, path
SourceRest(source, transaction, methods, path_attr) ==
  (IF DOMAIN transaction # {} THEN [transaction |-> transaction]
   ELSE EmptyDict)
  @@ (IF Truthy(methods) THEN [methods |-> SplitMethods(methods, "", <<>>)]
      ELSE EmptyDict)
  @@ (IF Truthy(path_attr) /\ "path" \notin DOMAIN source
      THEN [path |-> path_attr] ELSE EmptyDict)
  @@ source

\* parse_source for the first child of a flow
SourceOf(first, namespace_map) ==
  Let1(OptionalKeys(<<"path", "queue", "cron", "responseTimeout">>, first,
         [raised |-> FALSE,
          val |-> [type |-> qualified_name(first.tag, namespace_map)]
                  @@ (IF Truthy(Get(first.attrib, "config-ref"))
                      THEN [configRef |-> first.attrib["config-ref"]]
                      ELSE EmptyDict)]),
       LAMBDA opt :
         IF opt.raised THEN [raised |-> TRUE, val |-> EmptyDict]
         ELSE [raised |-> FALSE,
               val |-> SourceRest(opt.val, extract_transaction(first.attrib),
                                  Get(first.attrib, "methods"),
                                  Or(Get(first.attrib, "path"),
                                     Get(first.attrib, "destination")))])

\* parse_source: raised where the code raises ValueError
parse_source(elem, namespace_map) ==
  IF elem.kids = <<>> THEN [raised |-> FALSE, val |-> EmptyDict]
  ELSE SourceOf(elem.kids[1], namespace_map)

\* the dw test of derive_flags for one processor
FlagDW(processor, flags) ==
  IF "dw" \in DOMAIN processor /\ DOMAIN processor.dw # {}
  THEN Put(flags, "hasBlockingDW", TRUE) ELSE flags

\* the body of the loop of derive_flags for one processor: the flags
\* afterwards; the ValueError of int() is met by continue
FlagsOf(processor, attributes, flags) ==
  IF "maxConcurrency" \in DOMAIN attributes
  THEN Let1(PyInt(attributes["maxConcurrency"]),
            LAMBDA value :
              IF ~value.ok THEN flags
              ELSE FlagDW(processor,
                          IF value.val > 0
                          THEN Put(flags, "parallelism", value.val)
                          ELSE flags))
  ELSE FlagDW(processor, flags)

RECURSIVE FlagsLoop(_, _)
FlagsLoop(processors, flags) ==
  IF processors = <<>> THEN flags
  ELSE FlagsLoop(Tail(processors),
                 FlagsOf(Head(processors),
                         IF "attributes" \in DOMAIN Head(processors)
                         THEN Head(processors).attributes ELSE EmptyDict,
                         flags))

derive_flags(processors) == FlagsLoop(processors, EmptyDict)

infer_location(elem) ==
  IF Truthy(Get(elem.attrib, "name")) THEN "flow:" \o elem.attrib["name"]
  ELSE "unknown"

(***************************************************************************)
(* parser.py: flows and subflows                                           *)
(***************************************************************************)
\* ProcessorChildren, were the error-handler children enumerated as well
ChildrenWithHandlers(children) == children

\* [child for child in elem if local_name(child.tag) != "error-handler"]
RECURSIVE ProcessorChildren(_)
ProcessorChildren(children) ==
  IF children = <<>> THEN <<>>
  ELSE IF local_name(Head(children).tag) # "error-handler"
       THEN <<Head(children)>> \o ProcessorChildren(Tail(children))
  ELSE ProcessorChildren(Tail(children))

\* the enumerate loop of parse_flow and parse_subflow
RECURSIVE ProcessorLoop(_, _, _, _, _, _, _)
ProcessorLoop(children, idx, lookup, assumptions, namespace_map, processors, edges) ==
  IF children = <<>>
  THEN [processors |-> processors, edges |-> edges, asm |-> assumptions]
  ELSE Let1(parse_processor(idx, Head(children), lookup, assumptions,
                            namespace_map),
            LAMBDA result :
              ProcessorLoop(Tail(children), idx + 1, lookup, result.asm,
                            namespace_map,
                            Append(processors, result.processor),
                            edges \o result.edges))

\* the second loop of parse_flow and parse_subflow: the first error-handler
\* child is parsed, and the loop breaks
RECURSIVE FirstErrorHandler(_, _, _)
FirstErrorHandler(children, lookup, assumptions) ==
  IF children = <<>> THEN [val |-> EmptyDict, asm |-> assumptions]
  ELSE IF local_name(Head(children).tag) = "error-handler"
       THEN parse_error_handler(Head(children), lookup, assumptions)
  ELSE FirstErrorHandler(Tail(children), lookup, assumptions)

\* the flow_dict of parse_flow
FlowDict(flow_id, name, processors, edges, location, source, error_handler, flags) ==
  [id |-> flow_id, name |-> name, processors |-> processors,
   edges |-> edges, location |-> location]
  @@ (IF DOMAIN source # {} THEN [source |-> source] ELSE EmptyDict)
  @@ (IF DOMAIN error_handler # {} THEN [errorHandler |-> error_handler]
      ELSE EmptyDict)
  @@ (IF DOMAIN flags # {} THEN [flags |-> flags] ELSE EmptyDict)

\* parse_flow after its two loops
FlowOf(elem, name, flow_id, p, error_handler, source) ==
  [raised |-> source.raised,
   val |-> IF source.raised THEN EmptyDict
           ELSE FlowDict(flow_id, name, p.processors, p.edges,
                         infer_location(elem), source.val, error_handler.val,
                         derive_flags(p.processors)),
   asm |-> error_handler.asm]

\* elem.attrib.get("name", "")
NameOf(elem) == IF "name" \in DOMAIN elem.attrib THEN elem.attrib["name"] ELSE ""

\* table.get(name, f"{kind}://{name}")
IdOf(table, kind, name) ==
  IF name \in DOMAIN table THEN table[name] ELSE kind \o "://" \o name

\* parse_flow: raised where parse_source raises ValueError
parse_flow(elem, lookup, assumptions, namespace_map) ==
  Let1(ProcessorLoop(ProcessorChildren(elem.kids), 0, lookup, assumptions,
                     namespace_map, <<>>, <<>>),
       LAMBDA p :
         FlowOf(elem, NameOf(elem), IdOf(lookup.flows, "flow", NameOf(elem)),
                p, FirstErrorHandler(elem.kids, lookup, p.asm),
                parse_source(elem, namespace_map)))

\* the subflow_dict of parse_subflow
SubflowDict(subflow_id, name, processors, location, error_handler) ==
  [id |-> subflow_id, name |-> name, processors |-> processors,
   location |-> location]
  @@ (IF DOMAIN error_handler # {} THEN [errorHandler |-> error_handler]
      ELSE EmptyDict)

\* parse_subflow after its two loops
SubflowOf(elem, name, subflow_id, p, error_handler) ==
  [val |-> SubflowDict(subflow_id, name, p.processors, infer_location(elem),
                       error_handler.val),
   asm |-> error_handler.asm]

parse_subflow(elem, lookup, assumptions, namespace_map) ==
  Let1(ProcessorLoop(ProcessorChildren(elem.kids), 0, lookup, assumptions,
                     namespace_map, <<>>, <<>>),
       LAMBDA p :
         SubflowOf(elem, NameOf(elem),
                   IdOf(lookup.subflows, "subflow", NameOf(elem)),
                   p, FirstErrorHandler(elem.kids, lookup, p.asm)))

\* [elem for elem in root if local_name(elem.tag) in locals]
RECURSIVE ElementsNamed(_, _)
ElementsNamed(children, locals) ==
  IF children = <<>> THEN <<>>
  ELSE IF local_name(Head(children).tag) \in locals
       THEN <<Head(children)>> \o ElementsNamed(Tail(children), locals)
  ELSE ElementsNamed(Tail(children), locals)

\* the dict comprehensions of parse_mule_xml that fill NodeLookup: one key
\* per element with a non-empty name, mapped to kind://name
RECURSIVE NameTable(_, _, _)
NameTable(elements, kind, table) ==
  IF elements = <<>> THEN table
  ELSE NameTable(Tail(elements), kind,
         IF Truthy(Get(Head(elements).attrib, "name"))
         THEN Put(table, Head(elements).attrib["name"],
                  kind \o "://" \o Head(elements).attrib["name"])
         ELSE table)

NodeLookup(flow_elems, subflow_elems) ==
  [flows |-> NameTable(flow_elems, "flow", EmptyDict),
   subflows |-> NameTable(subflow_elems, "subflow", EmptyDict)]

(***************************************************************************)
(* Input documents                                                         *)
(***************************************************************************)
\* at most MaxTop top-level elements in a document of TopDocuments
MaxTop == 2

\* at most MaxKids children in the flow or subflow of a document of
\* BodyDocuments
MaxKids == 2

\* the namespace declarations of the documents that use namespaces: the
\* default namespace, and two prefixes bound to the same URI
Declarations == << <<"", "core">>, <<"ee", "eecore">>, <<"dw", "eecore">>,
     <<"http", "httpns">> >>

Core(local) == "{core}" \o local

Ee(local) == "{eecore}" \o local

NoAttrs == EmptyDict

Ref(name) == El(Core("flow-ref"), [name |-> name], <<>>, None)

RefNoName == El(Core("flow-ref"), NoAttrs, <<>>, None)

Logger == El(Core("logger"), [message |-> "m"], <<>>, None)

Try(kids) == El(Core("try"), NoAttrs, kids, None)

Script(text) == El(Ee("set-payload"), NoAttrs, <<>>, text)

\* first children of a flow: a listener with a numeric and with a
\* non-numeric responseTimeout
Listeners ==
  {El("{httpns}listener", [path |-> "/api", methods |-> "GET, POST",
                         responseTimeout |-> t], <<>>, None) :
     t \in {"30", "abc"}}

Transforms ==
  {El(Ee("transform"), NoAttrs, <<Script("%dw 2.0\noutput json")>>, None),
   El(Ee("transform"), [maxConcurrency |-> "abc"], <<Script("x")>>, None),
   El(Ee("transform"), [maxConcurrency |-> "4"], <<Script(" ")>>, None)}

OnError(local, attrib, kids) == El(Core(local), attrib, kids, None)

ErrorHandlers ==
  {El(Core("error-handler"), NoAttrs, entries, None) : entries \in
     {<<OnError("on-error-continue", NoAttrs, <<RefNoName, Ref("a")>>)>>,
      <<OnError("on-error-propagate", [statusCode |-> "abc"],
                <<Try(<<Ref("u")>>), Ref("a")>>)>>,
      <<OnError("on-error-continue", [statusCode |-> "500", type |-> "ANY"],
                <<Logger>>),
        OnError("on-error-propagate", [when |-> "w"], <<Ref("u")>>)>>,
      <<Logger>>}}

When(attrib, kids) == El(Core("when"), attrib, kids, None)

Otherwise(kids) == El(Core("otherwise"), NoAttrs, kids, None)

Route(kids) == El(Core("route"), NoAttrs, kids, None)

Choices ==
  {El(Core("choice"), NoAttrs, branches, None) : branches \in
     {<<When([expression |-> "e"], <<Ref("a")>>), Otherwise(<<Ref("u")>>)>>,
      <<When(NoAttrs, <<Try(<<Ref("u")>>), Ref("a")>>)>>,
      <<Otherwise(<<Ref("a")>>), Ref("u"),
        When([condition |-> "c"], <<RefNoName>>)>>}}

Routers ==
  {El(Core("scatter-gather"), NoAttrs,
      <<Route(<<Ref("a")>>), Route(<<Ref("u")>>)>>, None),
   El(Core("first-successful"), NoAttrs, <<Route(<<Ref("u")>>)>>, None),
   El(Core("foreach"), NoAttrs, <<Ref("u")>>, None)}

\* the children a flow or subflow of BodyDocuments is built from
BodyElements ==
  {Ref("a"), Ref("u"), RefNoName, Logger}
    \cup Listeners \cup Transforms \cup ErrorHandlers \cup Choices \cup Routers

\* the sequences over S of length at most n
RECURSIVE SeqsUpTo(_, _)
SeqsUpTo(S, n) ==
  IF n = 0 THEN {<<>>}
  ELSE Let1(SeqsUpTo(S, n - 1),
            LAMBDA shorter : shorter \cup {Append(q, e) : q \in shorter, e \in S})

Mule(kids) == El(Core("mule"), NoAttrs, kids, None)

\* one flow or subflow named f with up to MaxKids children, followed by the
\* subflow a
BodyDocuments ==
  {[decls |-> Declarations,
    root |-> Mule(<<El(Core(local), [name |-> "f"], body, None),
                    El(Core("sub-flow"), [name |-> "a"], <<>>, None)>>)] :
     local \in {"flow", "sub-flow"}, body \in SeqsUpTo(BodyElements, MaxKids)}

\* top-level elements without namespaces: flows and subflows named a, b or
\* not at all, empty or referring to b, and an element that is neither
TopElements ==
  {El(local, attrib, body, None) :
     local \in {"flow", "sub-flow", "subflow"},
     attrib \in {[name |-> "a"], [name |-> "b"], NoAttrs},
     body \in {<<>>, <<El("flow-ref", [name |-> "b"], <<>>, None)>>}}
    \cup {El("configuration", [name |-> "a"], <<>>, None)}

TopDocuments ==
  {[decls |-> <<>>, root |-> El("mule", NoAttrs, tops, None)] :
     tops \in SeqsUpTo(TopElements, MaxTop)}

\* the router document of tests/test_parser_basic.py (ROUTER_XML), with the
\* subflows named in defined
RouterNames ==
  <<"flagged", "fallback", "routeOne", "routeTwo", "firstOption", "loopSub">>

RECURSIVE SubflowsNamed(_, _)
SubflowsNamed(names, defined) ==
  IF names = <<>> THEN <<>>
  ELSE (IF Head(names) \in defined
        THEN <<El(Core("sub-flow"), [name |-> Head(names)], <<>>, None)>>
        ELSE <<>>) \o SubflowsNamed(Tail(names), defined)

RouterFlow ==
  El(Core("flow"), [name |-> "routerFlow"],
     <<El(Core("choice"), NoAttrs,
          <<When([expression |-> "#[vars.flag]"], <<Ref("flagged")>>),
            Otherwise(<<Ref("fallback")>>)>>, None),
       El(Core("scatter-gather"), NoAttrs,
          <<Route(<<Ref("routeOne")>>), Route(<<Ref("routeTwo")>>)>>, None),
       El(Core("first-successful"), NoAttrs,
          <<Route(<<Ref("firstOption")>>)>>, None),
       El(Core("foreach"), NoAttrs, <<Ref("loopSub")>>, None)>>, None)

RouterDocuments ==
  {[decls |-> Declarations,
    root |-> Mule(<<RouterFlow>> \o SubflowsNamed(RouterNames, defined))] :
     defined \in {{}, {"flagged", "routeOne", "loopSub"},
                  {"flagged", "fallback", "routeOne", "routeTwo",
                   "firstOption", "loopSub"}}}

\* bodies with error-handler children before, between and after the
\* processors
HandlerPlacements ==
  {{<<h, Logger, Ref("a")>>, <<Logger, h, Ref("a")>>, <<Logger, Ref("a"), h>>,
    <<Logger, h, Ref("u"), h, Try(<<Logger>>)>>} :
     h \in {El(Core("error-handler"), NoAttrs,
               <<OnError("on-error-continue", NoAttrs, <<Logger>>)>>, None)}}

\* one flow or subflow named f with a body of HandlerPlacements, followed by
\* the subflow a
PlacementDocuments ==
  {[decls |-> Declarations,
    root |-> Mule(<<El(Core(local), [name |-> "f"], body, None),
                    El(Core("sub-flow"), [name |-> "a"], <<>>, None)>>)] :
     local \in {"flow", "sub-flow"}, body \in UNION HandlerPlacements}

Documents ==
  BodyDocuments \cup TopDocuments \cup RouterDocuments \cup PlacementDocuments

\* the file named on the command line: missing, not UTF-8, not well-formed
\* XML, or one of Documents
Inputs ==
  {[exists |-> FALSE, content |-> "xml", doc |-> d] : d \in RouterDocuments}
    \cup {[exists |-> TRUE, content |-> c, doc |-> d] :
            c \in {"undecodable", "malformed"}, d \in RouterDocuments}
    \cup {[exists |-> TRUE, content |-> "xml", doc |-> d] : d \in Documents}

(***************************************************************************)
(* cli.py main and parser.py parse_mule_file, parse_mule_xml               *)
(***************************************************************************)
VARIABLES input, pc, namespace_map, lookup, assumptions, flows, subflows,
          document, raised, outcome, exit_code, stderr, written

vars == <<input, pc, namespace_map, lookup, assumptions, flows, subflows,
          document, raised, outcome, exit_code, stderr, written>>

\* the values datetime.now(timezone.utc).isoformat() may take
Timestamps == {"t1", "t2"}

\* isinstance(exc, ValueError): UnicodeDecodeError derives from ValueError,
\* xml.etree.ElementTree.ParseError derives from SyntaxError
IsValueError(exc) == exc \in {"ValueError", "UnicodeDecodeError"}

flow_elements == ElementsNamed(input.doc.root.kids, {"flow"})

subflow_elements == ElementsNamed(input.doc.root.kids, {"sub-flow", "subflow"})

Init ==
  /\ input \in Inputs
  /\ pc = "main"
  /\ namespace_map = EmptyDict
  /\ lookup = [flows |-> EmptyDict, subflows |-> EmptyDict]
  /\ assumptions = <<>>
  /\ flows = <<>>
  /\ subflows = <<>>
  /\ document = EmptyDict
  /\ raised = "none"
  /\ outcome = "running"
  /\ exit_code = 0
  /\ stderr = ""
  /\ written = FALSE

\* main up to the call of parse_mule_file: parser.error exits with code 2
MainCheckInput ==
  /\ pc = "main"
  /\ IF input.exists
     THEN /\ pc' = "parse_mule_file"
          /\ UNCHANGED <<outcome, exit_code, stderr>>
     ELSE /\ pc' = "exit"
          /\ outcome' = "SystemExit"
          /\ exit_code' = 2
          /\ stderr' = "Input file does not exist"
  /\ UNCHANGED <<input, namespace_map, lookup, assumptions, flows, subflows,
                 document, raised, written>>

\* parse_mule_file: handle.read() decodes the file as UTF-8
ParseMuleFile ==
  /\ pc = "parse_mule_file"
  /\ IF input.content = "undecodable"
     THEN raised' = "UnicodeDecodeError" /\ pc' = "except"
     ELSE raised' = raised /\ pc' = "parse_mule_xml"
  /\ UNCHANGED <<input, namespace_map, lookup, assumptions, flows, subflows,
                 document, outcome, exit_code, stderr, written>>

\* parse_mule_xml: collect_namespaces and ET.fromstring
ParseXml ==
  /\ pc = "parse_mule_xml"
  /\ IF input.content = "malformed"
     THEN /\ raised' = "ParseError" /\ pc' = "except"
          /\ UNCHANGED namespace_map
     ELSE /\ namespace_map' = collect_namespaces(input.doc.decls, EmptyDict)
          /\ raised' = raised /\ pc' = "lookup"
  /\ UNCHANGED <<input, lookup, assumptions, flows, subflows, document,
                 outcome, exit_code, stderr, written>>

\* parse_mule_xml: the lookup is built from all top-level elements
BuildLookup ==
  /\ pc = "lookup"
  /\ lookup' = NodeLookup(flow_elements, subflow_elements)
  /\ assumptions' = <<>>
  /\ pc' = "walk"
  /\ UNCHANGED <<input, namespace_map, flows, subflows, document, raised,
                 outcome, exit_code, stderr, written>>

\* parse_mule_xml: the next element of the flows comprehension
ParseNextFlow ==
  /\ pc = "walk"
  /\ Len(flows) < Len(flow_elements)
  /\ Let1(parse_flow(flow_elements[Len(flows) + 1], lookup, assumptions,
                     namespace_map),
          LAMBDA r :
            /\ assumptions' = r.asm
            /\ IF r.raised
               THEN raised' = "ValueError" /\ pc' = "except" /\ flows' = flows
               ELSE raised' = raised /\ pc' = pc
                    /\ flows' = Append(flows, r.val))
  /\ UNCHANGED <<input, namespace_map, lookup, subflows, document, outcome,
                 exit_code, stderr, written>>

\* parse_mule_xml: the next element of the subflows comprehension
ParseNextSubflow ==
  /\ pc = "walk"
  /\ Len(flows) = Len(flow_elements)
  /\ Len(subflows) < Len(subflow_elements)
  /\ Let1(parse_subflow(subflow_elements[Len(subflows) + 1], lookup,
                        assumptions, namespace_map),
          LAMBDA r : assumptions' = r.asm /\ subflows' = Append(subflows, r.val))
  /\ UNCHANGED <<input, pc, namespace_map, lookup, flows, document, raised,
                 outcome, exit_code, stderr, written>>

\* parse_mule_xml: the document returned
Assemble ==
  /\ pc = "walk"
  /\ Len(flows) = Len(flow_elements)
  /\ Len(subflows) = Len(subflow_elements)
  /\ \E now \in Timestamps :
       document' = [schemaVersion |-> "1.0.0", project |-> "p",
                    generatedAt |-> now, flows |-> flows,
                    subflows |-> subflows, links |-> <<>>]
                   @@ (IF assumptions # <<>>
                       THEN [assumptions |-> assumptions] ELSE EmptyDict)
  /\ pc' = "dump"
  /\ UNCHANGED <<input, namespace_map, lookup, assumptions, flows, subflows,
                 raised, outcome, exit_code, stderr, written>>

\* main: an exception of parse_mule_file meets "except ValueError"
MainExcept ==
  /\ pc = "except"
  /\ IF IsValueError(raised)
     THEN /\ outcome' = "SystemExit"
          /\ exit_code' = 2
          /\ stderr' = "Could not parse Mule configuration"
     ELSE /\ outcome' = raised
          /\ UNCHANGED <<exit_code, stderr>>
  /\ pc' = "exit"
  /\ UNCHANGED <<input, namespace_map, lookup, assumptions, flows, subflows,
                 document, raised, written>>

\* main: dump_json and return 0
MainDump ==
  /\ pc = "dump"
  /\ written' = TRUE
  /\ outcome' = "return"
  /\ exit_code' = 0
  /\ pc' = "exit"
  /\ UNCHANGED <<input, namespace_map, lookup, assumptions, flows, subflows,
                 document, raised, stderr>>

Next ==
  \/ MainCheckInput
  \/ ParseMuleFile
  \/ ParseXml
  \/ BuildLookup
  \/ ParseNextFlow
  \/ ParseNextSubflow
  \/ Assemble
  \/ MainExcept
  \/ MainDump

Spec == Init /\ [][Next]_vars

(***************************************************************************)
(* Vocabulary of the properties                                            *)
(***************************************************************************)
Range(seq) == {seq[i] : i \in DOMAIN seq}

\* the document was returned by parse_mule_xml
Returned == "flows" \in DOMAIN document

\* the input is a readable, well-formed document
WellFormed == input.exists /\ input.content = "xml"

TopLevel == input.doc.root.kids

HasName(e) == "name" \in DOMAIN e.attrib /\ e.attrib["name"] # ""

IsFlowElem(e) == local_name(e.tag) = "flow"

IsSubflowElem(e) == local_name(e.tag) \in {"sub-flow", "subflow"}

IsFlowRef(e) == local_name(e.tag) = "flow-ref"

\* the names of the named top-level flows and subflows of the input
FlowNames == {e.attrib["name"] : e \in {t \in Range(TopLevel) : IsFlowElem(t) /\ HasName(t)}}

SubflowNames == {e.attrib["name"] : e \in {t \in Range(TopLevel) : IsSubflowElem(t) /\ HasName(t)}}

Known(name) == name \in FlowNames \cup SubflowNames

\* the identifier a reference to name stands for
ExpectedId(name) ==
  IF name \in FlowNames THEN "flow://" \o name
  ELSE IF name \in SubflowNames THEN "subflow://" \o name
  ELSE "flow://" \o name

\* the named flow-ref elements among the descendants of e, in document order
NamedRefsIn(e) == SelectSeq(Iter(e), LAMBDA c : IsFlowRef(c) /\ HasName(c))

\* every name a flow-ref of the input carries
RefNames ==
  {c.attrib["name"] : c \in UNION {Range(NamedRefsIn(t)) : t \in Range(TopLevel)}}

\* the number of entries of seq equal to v
Count(seq, v) == Cardinality({i \in DOMAIN seq : seq[i] = v})

CountVia(edges, via) == Cardinality({i \in DOMAIN edges : edges[i].via = via})

\* the target lists of the branches of a processor
BranchTargets(processor) ==
  IF "branches" \in DOMAIN processor
  THEN [i \in DOMAIN processor.branches |-> processor.branches[i].targets]
  ELSE <<>>

\* the on-error entries of a parsed flow or subflow
OnErrorOf(node) ==
  IF "errorHandler" \in DOMAIN node THEN node.errorHandler.onError ELSE <<>>

\* every identifier a parsed flow or subflow refers to: edge targets, branch
\* targets and error-entry targets
TargetsOf(node) ==
  (IF "edges" \in DOMAIN node THEN {e.to : e \in Range(node.edges)} ELSE {})
    \cup UNION {Range(b.targets) :
                  b \in UNION {Range(p.branches) :
                                 p \in {q \in Range(node.processors) :
                                          "branches" \in DOMAIN q}}}
    \cup {e.target : e \in {x \in Range(OnErrorOf(node)) : "target" \in DOMAIN x}}

\* every flow has been parsed and no subflow yet
AfterFlows ==
  pc = "walk" /\ Len(flows) = Len(flow_elements) /\ subflows = <<>>

(***************************************************************************)
(* C1                                                                      *)
(***************************************************************************)
\* C1: for the router flow (a choice with one when and one otherwise, a
\* scatter-gather with two routes, a first-successful with one route and a
\* foreach with one flow-ref, one flow-ref each), the flow's edges hold
\* exactly one choice.when, one choice.otherwise, two scatter-gather, one
\* first-successful and one foreach edge, and the scatter-gather,
\* first-successful and foreach processors carry branches whose target
\* lists follow route order.
C1_RouterEdgesAndBranches ==
  (Returned /\ input.doc \in RouterDocuments) =>
    LET flow == document.flows[1]
    IN  /\ CountVia(flow.edges, "choice.when") = 1
        /\ CountVia(flow.edges, "choice.otherwise") = 1
        /\ CountVia(flow.edges, "scatter-gather") = 2
        /\ CountVia(flow.edges, "first-successful") = 1
        /\ CountVia(flow.edges, "foreach") = 1
        /\ BranchTargets(flow.processors[2])
             = << <<ExpectedId("routeOne")>>, <<ExpectedId("routeTwo")>> >>
        /\ BranchTargets(flow.processors[3]) = << <<ExpectedId("firstOption")>> >>
        /\ BranchTargets(flow.processors[4]) = << <<ExpectedId("loopSub")>> >>

(***************************************************************************)
(* C2                                                                      *)
(***************************************************************************)
\* the flow-ref elements named name among the descendants of the flows
RefsInFlows(name) ==
  UNION {{<<i, j>> : j \in {k \in DOMAIN NamedRefsIn(flow_elements[i]) :
                             NamedRefsIn(flow_elements[i])[k].attrib["name"]
                               = name}} :
           i \in DOMAIN flow_elements}

\* C2: once the flows are parsed, every flow-ref anywhere inside a flow
\* that names no top-level flow or subflow has an edge or target
\* flow://<name> in its flow, and the assumptions list holds exactly one
\* entry mentioning that name per such reference.
C2_UnresolvedReferences ==
  AfterFlows =>
    \A name \in RefNames :
      ~Known(name) =>
        /\ Count(assumptions, UnknownReference(name))
             = Cardinality(RefsInFlows(name))
        /\ \A r \in RefsInFlows(name) :
             ("flow://" \o name) \in TargetsOf(flows[r[1]])

(***************************************************************************)
(* C3                                                                      *)
(***************************************************************************)
\* value is present and no int literal
NonNumeric(attrib, key) ==
  key \in DOMAIN attrib /\ attrib[key] # "" /\ ~PyInt(attrib[key]).ok

\* the on-error children of the honoured error-handler of a flow or subflow
\* element, in document order
HonouredEntries(elem) ==
  LET handlers == SelectSeq(elem.kids,
                            LAMBDA c : local_name(c.tag) = "error-handler")
  IN  IF handlers = <<>> THEN <<>>
      ELSE SelectSeq(handlers[1].kids,
                     LAMBDA c : local_name(c.tag) \in
                                  {"on-error-continue", "on-error-propagate"})

\* C3: for a well-formed document parse_mule_xml never raises, the document
\* is returned, a non-numeric statusCode yields an entry without setsStatus
\* and a non-numeric responseTimeout on a flow's first child yields a source
\* without responseTimeoutMs.
C3_NonNumericNeverRaises ==
  WellFormed =>
    /\ raised = "none"
    /\ pc = "exit" => Returned
    /\ \A i \in DOMAIN flows :
         /\ \A j \in DOMAIN HonouredEntries(flow_elements[i]) :
              NonNumeric(HonouredEntries(flow_elements[i])[j].attrib, "statusCode")
                => "setsStatus" \notin DOMAIN OnErrorOf(flows[i])[j]
         /\ (flow_elements[i].kids # <<>>
             /\ NonNumeric(flow_elements[i].kids[1].attrib, "responseTimeout"))
              => /\ "source" \in DOMAIN flows[i]
                 /\ "responseTimeoutMs" \notin DOMAIN flows[i].source

(***************************************************************************)
(* C4                                                                      *)
(***************************************************************************)
\* C4: when main is given an existing file whose content fails to parse, it
\* ends through parser.error (SystemExit with code 2 and the message "Could
\* not parse Mule configuration"), no exception of the parser leaves main,
\* and no output file is written.
C4_ParseFailureReported ==
  (pc = "exit" /\ input.exists /\ input.content # "xml") =>
    /\ outcome = "SystemExit"
    /\ exit_code = 2
    /\ stderr = "Could not parse Mule configuration"
    /\ ~written

(***************************************************************************)
(* C5                                                                      *)
(***************************************************************************)
\* C5: every parsed flow with a processor that carries a dw key has a flags
\* map in which hasBlockingDW is true.
C5_BlockingDWFlag ==
  \A i \in DOMAIN flows :
    (\E p \in Range(flows[i].processors) : "dw" \in DOMAIN p) =>
      /\ "flags" \in DOMAIN flows[i]
      /\ "hasBlockingDW" \in DOMAIN flows[i].flags
      /\ flows[i].flags["hasBlockingDW"] = TRUE

(***************************************************************************)
(* C6                                                                      *)
(***************************************************************************)
\* the identifiers of the named top-level flows and subflows
NamedIds ==
  {"flow://" \o n : n \in FlowNames} \cup {"subflow://" \o n : n \in SubflowNames}

\* id is a fallback flow://<name> for which the document records an
\* assumption mentioning name
IsFallback(id) ==
  \E name \in RefNames :
    /\ id = "flow://" \o name
    /\ "assumptions" \in DOMAIN document
    /\ UnknownReference(name) \in Range(document.assumptions)

ParsedNodes == Range(document.flows) \cup Range(document.subflows)

\* C6: in every returned document every edge target, branch target and
\* error-entry target is the id of a named top-level flow or subflow, or a
\* fallback flow://<name> with an assumption mentioning <name> in the
\* document's assumptions list.
C6_TargetsResolvedOrAssumed ==
  Returned =>
    \A node \in ParsedNodes :
      \A id \in TargetsOf(node) : id \in NamedIds \/ IsFallback(id)

\* a returned flow refers both to a named subflow and to an unknown name
C6_Witness ==
  /\ Returned
  /\ \E node \in Range(document.flows) :
       /\ \E id \in TargetsOf(node) : id \in NamedIds
       /\ \E id \in TargetsOf(node) : id \notin NamedIds /\ IsFallback(id)

(***************************************************************************)
(* C7                                                                      *)
(***************************************************************************)
\* the flow-ref edges the direct children of a flow element stand for
DirectRefEdges(elem) ==
  LET refs == SelectSeq(elem.kids, LAMBDA c : IsFlowRef(c) /\ HasName(c))
  IN  [k \in DOMAIN refs |->
         [to |-> ExpectedId(refs[k].attrib["name"]), via |-> "flow-ref"]]

\* C7: once the lookup is built, resolve(name) is flow://<name> for a named
\* top-level flow, else subflow://<name> for a named top-level subflow, else
\* flow://<name> with one assumption appended; it depends only on the sets
\* of named flows and subflows, so the flow-ref edges of every flow are the
\* same wherever the referenced element stands in the document.
C7_ResolveByNameSets ==
  pc \in {"walk", "dump"} =>
    /\ \A name \in RefNames \cup FlowNames \cup SubflowNames :
         LET r == resolve(lookup, assumptions, name)
         IN  /\ r.val = ExpectedId(name)
             /\ r.asm = IF Known(name) THEN assumptions
                        ELSE Append(assumptions, UnknownReference(name))
    /\ \A i \in DOMAIN flows :
         SelectSeq(flows[i].edges, LAMBDA e : e.via = "flow-ref")
           = DirectRefEdges(flow_elements[i])

\* a flow that comes first refers to a subflow defined after it: the edge
\* is the subflow's id and nothing is assumed
C7_Witness ==
  /\ Returned
  /\ Len(TopLevel) >= 2
  /\ IsFlowElem(TopLevel[1])
  /\ TopLevel[1].kids # <<>>
  /\ IsFlowRef(TopLevel[1].kids[1]) /\ HasName(TopLevel[1].kids[1])
  /\ IsSubflowElem(TopLevel[2]) /\ HasName(TopLevel[2])
  /\ TopLevel[2].attrib["name"] = TopLevel[1].kids[1].attrib["name"]
  /\ TopLevel[2].attrib["name"] \notin FlowNames
  /\ document.flows[1].edges
       = <<[to |-> "subflow://" \o TopLevel[2].attrib["name"], via |-> "flow-ref"]>>
  /\ "assumptions" \notin DOMAIN document

(***************************************************************************)
(* C8                                                                      *)
(***************************************************************************)
\* the flow-ref elements among the descendants of e, named or not
AllRefsIn(e) == SelectSeq(Iter(e), LAMBDA c : IsFlowRef(c))

\* the parsed entries of node agree with the entries of elem, the target
\* being resolved from the first flow-ref of Refs(entry)
EntryTargets(elem, node, Refs(_)) ==
  /\ Len(OnErrorOf(node)) = Len(HonouredEntries(elem))
  /\ \A j \in DOMAIN HonouredEntries(elem) :
       LET refs == Refs(HonouredEntries(elem)[j])
       IN  IF refs = <<>> THEN "target" \notin DOMAIN OnErrorOf(node)[j]
           ELSE /\ "target" \in DOMAIN OnErrorOf(node)[j]
                /\ HasName(refs[1])
                /\ OnErrorOf(node)[j].target = ExpectedId(refs[1].attrib["name"])

\* the processors of elem resolve no reference
ResolvesNothing(elem) ==
  \A c \in Range(elem.kids) :
    local_name(c.tag) = "error-handler" \/ NamedRefsIn(c) = <<>>

\* the honoured entries of the flows whose first named flow-ref is unknown
UnknownEntryTargets ==
  UNION {{<<i, j>> : j \in {k \in DOMAIN HonouredEntries(flow_elements[i]) :
             /\ NamedRefsIn(HonouredEntries(flow_elements[i])[k]) # <<>>
             /\ ~Known(NamedRefsIn(HonouredEntries(flow_elements[i])[k])[1]
                         .attrib["name"])}} :
           i \in DOMAIN flow_elements}

\* C8 as amended: the target of every on-error entry of an honoured
\* error-handler is resolved from the first flow-ref with a non-empty name
\* found in document order anywhere within the entry, an entry without such
\* a flow-ref has no target key, and one flow-ref at most is resolved per
\* entry.
C8_EntryTargetFirstNamedRef ==
  /\ \A i \in DOMAIN flows :
       EntryTargets(flow_elements[i], flows[i], NamedRefsIn)
  /\ \A i \in DOMAIN subflows :
       EntryTargets(subflow_elements[i], subflows[i], NamedRefsIn)
  /\ (AfterFlows /\ \A i \in DOMAIN flow_elements :
                      ResolvesNothing(flow_elements[i]))
       => Len(assumptions) = Cardinality(UnknownEntryTargets)

\* C8 as claimed: the target is resolved from the first flow-ref element of
\* the entry, and an entry has a target exactly if it contains a flow-ref.
C8_EntryTargetFirstRef ==
  /\ \A i \in DOMAIN flows :
       EntryTargets(flow_elements[i], flows[i], AllRefsIn)
  /\ \A i \in DOMAIN subflows :
       EntryTargets(subflow_elements[i], subflows[i], AllRefsIn)

\* an entry whose first flow-ref has no name and whose target comes from
\* the named flow-ref after it
C8_Witness ==
  /\ Returned
  /\ \E i \in DOMAIN flows :
       \E j \in DOMAIN HonouredEntries(flow_elements[i]) :
         LET entry == HonouredEntries(flow_elements[i])[j]
         IN  /\ Len(AllRefsIn(entry)) >= 2
             /\ "target" \in DOMAIN document.flows[i].errorHandler.onError[j]
             /\ ~HasName(AllRefsIn(entry)[1])
             /\ HasName(AllRefsIn(entry)[2])
             /\ document.flows[i].errorHandler.onError[j].target
                  = ExpectedId(AllRefsIn(entry)[2].attrib["name"])

(***************************************************************************)
(* C9                                                                      *)
(***************************************************************************)
\* elem has no child other than error-handler elements
NoProcessors(elem) ==
  \A c \in Range(elem.kids) : local_name(c.tag) = "error-handler"

\* elem has an error-handler child with a recognized on-error entry
HasRecognizedEntry(elem) ==
  \E c \in Range(elem.kids) :
    /\ local_name(c.tag) = "error-handler"
    /\ \E d \in Range(c.kids) :
         local_name(d.tag) \in {"on-error-continue", "on-error-propagate"}

\* C9: a flow or subflow without processors is parsed into an entry with an
\* empty processors list; such a flow has no source key; the entry has no
\* errorHandler key unless the element has an error-handler child with a
\* recognized on-error entry.
C9_NoProcessors ==
  /\ \A i \in DOMAIN flows :
       NoProcessors(flow_elements[i]) =>
         /\ flows[i].processors = <<>>
         /\ "source" \notin DOMAIN flows[i]
         /\ "errorHandler" \in DOMAIN flows[i]
              => HasRecognizedEntry(flow_elements[i])
  /\ \A i \in DOMAIN subflows :
       NoProcessors(subflow_elements[i]) =>
         /\ subflows[i].processors = <<>>
         /\ "errorHandler" \in DOMAIN subflows[i]
              => HasRecognizedEntry(subflow_elements[i])

(***************************************************************************)
(* C10                                                                     *)
(***************************************************************************)
\* the branches of the processors of a parsed flow or subflow
BranchesOf(node) ==
  UNION {Range(p.branches) :
           p \in {q \in Range(node.processors) : "branches" \in DOMAIN q}}

\* C10: no field of a returned document is null: the when of a branch, the
\* when and target of an on-error entry and the configRef of a processor
\* are strings wherever the key is present.
C10_NoNullField ==
  Returned =>
    \A node \in ParsedNodes :
      /\ \A b \in BranchesOf(node) : "when" \in DOMAIN b => b.when # None
      /\ \A e \in Range(OnErrorOf(node)) :
           /\ "when" \in DOMAIN e => e.when # None
           /\ "target" \in DOMAIN e => e.target # None
      /\ \A p \in Range(node.processors) :
           "configRef" \in DOMAIN p => p.configRef # None

(***************************************************************************)
(* C11                                                                     *)
(***************************************************************************)
\* the name an entry for element e carries
EntryName(e) == IF "name" \in DOMAIN e.attrib THEN e.attrib["name"] ELSE ""

\* the children of e that are not error-handler elements, in document order
NonHandlerKids(e) ==
  SelectSeq(e.kids, LAMBDA c : local_name(c.tag) # "error-handler")

\* entries holds one entry per element of elems, in the same order
OneEntryEach(entries, elems) ==
  /\ Len(entries) = Len(elems)
  /\ \A i \in DOMAIN elems :
       /\ entries[i].name = EntryName(elems[i])
       /\ Len(entries[i].processors) = Len(NonHandlerKids(elems[i]))

\* main has left parse_mule_file, by a return or by an exception
Parsed == pc \in {"dump", "except", "exit"}

\* C11: for every well-formed input a document is returned whose flows list
\* has exactly one entry per direct child of the root with local name flow,
\* and whose subflows list has one per direct child with local name sub-flow
\* or subflow, each in document order; an element without a name attribute
\* gets the name "".
C11_OneEntryPerElement ==
  (WellFormed /\ Parsed) =>
    /\ Returned
    /\ OneEntryEach(document.flows, SelectSeq(TopLevel, IsFlowElem))
    /\ OneEntryEach(document.subflows, SelectSeq(TopLevel, IsSubflowElem))

\* the lists of the documents that are returned are as C11 says
ReturnedOneEntryPerElement ==
  Returned =>
    /\ OneEntryEach(document.flows, SelectSeq(TopLevel, IsFlowElem))
    /\ OneEntryEach(document.subflows, SelectSeq(TopLevel, IsSubflowElem))

(***************************************************************************)
(* C12                                                                     *)
(***************************************************************************)
\* processors holds one processor per child of elem that is not an
\* error-handler, in document order, the i-th with idx i counted from zero
DenseProcessors(processors, elem) ==
  /\ Len(processors) = Len(NonHandlerKids(elem))
  /\ \A k \in DOMAIN processors :
       /\ processors[k].idx = k - 1
       /\ processors[k].type
            = qualified_name(NonHandlerKids(elem)[k].tag, namespace_map)

\* C12: in every parsed flow and subflow the processors list holds exactly
\* the element's direct children whose local name is not error-handler, in
\* document order, and the i-th processor has idx i, counted from zero,
\* wherever the error-handler children sit among the siblings.
C12_DenseProcessorIndex ==
  /\ \A i \in DOMAIN flows :
       DenseProcessors(flows[i].processors, flow_elements[i])
  /\ \A i \in DOMAIN subflows :
       DenseProcessors(subflows[i].processors, subflow_elements[i])
  /\ Returned =>
       /\ \A i \in DOMAIN document.flows :
            DenseProcessors(document.flows[i].processors,
                            SelectSeq(TopLevel, IsFlowElem)[i])
       /\ \A i \in DOMAIN document.subflows :
            DenseProcessors(document.subflows[i].processors,
                            SelectSeq(TopLevel, IsSubflowElem)[i])

\* a returned flow with an error-handler between its first and second
\* processor and another between its second and third
C12_Witness ==
  /\ Returned
  /\ TopLevel # <<>>
  /\ IsFlowElem(TopLevel[1])
  /\ Len(TopLevel[1].kids) = 5
  /\ local_name(TopLevel[1].kids[2].tag) = "error-handler"
  /\ local_name(TopLevel[1].kids[4].tag) = "error-handler"
  /\ [k \in DOMAIN document.flows[1].processors |->
        document.flows[1].processors[k].idx] = <<0, 1, 2>>
  /\ document.flows[1].processors[3].type = "try"

(***************************************************************************)
(* C13                                                                     *)
(***************************************************************************)
RECURSIVE Flatten(_)
\* the concatenation of the sequences of seqs
Flatten(seqs) ==
  IF seqs = <<>> THEN <<>> ELSE Head(seqs) \o Flatten(Tail(seqs))

\* the when and otherwise children of a choice element, in document order
BranchKids(choice) ==
  SelectSeq(choice.kids, LAMBDA c : local_name(c.tag) \in {"when", "otherwise"})

\* the identifiers the flow-ref elements Refs(child) stand for
RefTargets(child, Refs(_)) ==
  [m \in DOMAIN Refs(child) |-> ExpectedId(Get(Refs(child)[m].attrib, "name"))]

\* the edges a choice element stands for: one per target of each branch
ChoiceEdges(choice, Refs(_)) ==
  Flatten([j \in DOMAIN BranchKids(choice) |->
             [m \in DOMAIN RefTargets(BranchKids(choice)[j], Refs) |->
                [to |-> RefTargets(BranchKids(choice)[j], Refs)[m],
                 via |-> "choice." \o local_name(BranchKids(choice)[j].tag)]]])

\* the branches and edges of the choice processors of the parsed flow node
\* are those of the choice children of elem, the targets of a branch being
\* resolved from the flow-ref elements Refs(child)
ChoiceBranches(elem, node, Refs(_)) ==
  /\ \A k \in DOMAIN NonHandlerKids(elem) :
       local_name(NonHandlerKids(elem)[k].tag) = "choice" =>
         LET kids == BranchKids(NonHandlerKids(elem)[k])
             branches == IF "branches" \in DOMAIN node.processors[k]
                         THEN node.processors[k].branches ELSE <<>>
         IN  /\ Len(branches) = Len(kids)
             /\ \A j \in DOMAIN kids :
                  /\ local_name(kids[j].tag) = "when"
                       <=> "when" \in DOMAIN branches[j]
                  /\ local_name(kids[j].tag) = "otherwise"
                       <=> ("otherwise" \in DOMAIN branches[j]
                            /\ branches[j].otherwise = TRUE)
                  /\ branches[j].targets = RefTargets(kids[j], Refs)
  /\ SelectSeq(node.edges,
               LAMBDA e : e.via \in {"choice.when", "choice.otherwise"})
       = Flatten([k \in DOMAIN NonHandlerKids(elem) |->
                    IF local_name(NonHandlerKids(elem)[k].tag) = "choice"
                    THEN ChoiceEdges(NonHandlerKids(elem)[k], Refs)
                    ELSE <<>>])

\* C13 as amended: for every choice processor directly under a flow, each
\* when and otherwise child yields one branch, in child document order,
\* whose targets are the resolved ids of every descendant flow-ref of that
\* child that has a non-empty name (at any depth, in document order; a
\* flow-ref without a name yields no target), and the edges the choice
\* contributes to the flow are exactly the concatenation of those target
\* lists in order, tagged choice.when and choice.otherwise.
C13_ChoiceBranchesNamedRefs ==
  \A i \in DOMAIN flows :
    ChoiceBranches(flow_elements[i], flows[i], NamedRefsIn)

\* C13 as claimed: the targets of a branch are the resolved ids of every
\* descendant flow-ref of the when or otherwise child, and the choice
\* contributes one edge per such flow-ref.
C13_ChoiceBranchesEveryRef ==
  \A i \in DOMAIN flows :
    ChoiceBranches(flow_elements[i], flows[i], AllRefsIn)

\* a returned flow with two choice processors: the first has a when child
\* with a flow-ref nested in a try followed by a direct one, the second an
\* otherwise child before a when child whose only flow-ref has no name
C13_Witness ==
  /\ Returned
  /\ Len(document.flows) = 1
  /\ Len(document.flows[1].processors) = 2
  /\ "branches" \in DOMAIN document.flows[1].processors[1]
  /\ "branches" \in DOMAIN document.flows[1].processors[2]
  /\ document.flows[1].processors[1].branches
       = <<[when |-> None, targets |-> <<"flow://u", "subflow://a">>]>>
  /\ document.flows[1].processors[2].branches
       = <<[otherwise |-> TRUE, targets |-> <<"subflow://a">>],
           [when |-> "c", targets |-> <<>>]>>
  /\ document.flows[1].edges
       = <<[to |-> "flow://u", via |-> "choice.when"],
           [to |-> "subflow://a", via |-> "choice.when"],
           [to |-> "subflow://a", via |-> "choice.otherwise"]>>

====
